---- MODULE Spec2Model ----
(***************************************************************************)
(* The group-provisioning workflow of the course-management application:   *)
(* the PatchGroup handler (package web), run against a local store and a   *)
(* code-hosting provider.  Every store call and every provider call of the *)
(* handler is one atomic step of the invocation that makes it; the steps   *)
(* of different invocations may interleave (SpecConc) or not (Spec).       *)
(***************************************************************************)
EXTENDS Integers, Sequences, FiniteSets, TLC

(* ------------------------------ bounds --------------------------------- *)
NumGroups == 1
NumUsers == 2
NumProcs == 2
MaxStatus == 4
MaxRuns == 3

(* ------------------- models: the status enumeration -------------------- *)
Pending == 0
Rejected == 1
Approved == 2
Teacher == 3

UserRepo == "UserRepo"
GroupRepo == "GroupRepo"

(* ------------------------------ the data ------------------------------- *)
GroupIDs == 1 .. NumGroups
NoGroup == NumGroups + 1
UserIDs == 1 .. NumUsers
Procs == 1 .. NumProcs
SeqProcs == {1}

CourseID == 1
Provider == "github"
OtherProvider == "gitlab"
DirectoryID == 1
DirPath == "org/course"

Name(g) == "g" \o ToString(g)
MembersOf(g) == [i \in 1 .. g + 1 |-> ((g + i - 2) % NumUsers) + 1]
RemoteIDOf(u) == 10 * u
TokenOf(u) == "token" \o ToString(u)
UserNameByID(rid) == "u" \o ToString(rid) \o "-handle"

Link(u, provider) == [Provider |-> provider, RemoteID |-> RemoteIDOf(u), AccessToken |-> TokenOf(u)]

\* the provider sessions the server holds, keyed by access credential
scms == {TokenOf(0), TokenOf(1)}

(* The incoming context of a gRPC call: md says whether it carries metadata,
   user is the list of values under the metadata key "user"; a value is a
   string, here the sequence of its characters.                            *)
MaxValues == 2
TokenValues ==
    { << >>, <<"1">>, <<"2">>, <<"0", "1">>, <<"9">>, <<"a">>, <<"1", "a">> }
UserValues == UNION {[1 .. n -> TokenValues] : n \in 0 .. MaxValues}
NoContext == [md |-> FALSE, user |-> << >>]
Contexts == {NoContext} \cup [md : {TRUE}, user : UserValues]

NoUser == [ID |-> 0, RemoteIdentities |-> {}]
NoSCM == ""
SCMOf(token) == "scm:" \o token
NoCall == [pc |-> "start", provider |-> "", dbErr |-> FALSE, user |-> NoUser, scm |-> NoSCM, err |-> ""]

\* the users a request can come from (c.Get("user")): IsAdmin is a *bool
CallerUsers ==
    { [IsAdmin |-> "nil", RemoteIdentities |-> {}],
      [IsAdmin |-> "false", RemoteIdentities |-> {}],
      [IsAdmin |-> "true", RemoteIdentities |-> {}],
      [IsAdmin |-> "true", RemoteIdentities |-> {Link(0, Provider)}],
      [IsAdmin |-> "true", RemoteIdentities |-> {Link(NumUsers + 1, Provider)}] }

NoRequest == [parsed |-> FALSE, gid |-> 0, Status |-> 0, user |-> [IsAdmin |-> "nil", RemoteIdentities |-> {}]]

\* the provider's repository of a course directory
RemoteRepo(id, path) == [ID |-> id, Path |-> path, Owner |-> DirPath, WebURL |-> "https://" \o DirPath \o "/" \o path \o "#" \o ToString(id)]
NoRepo == RemoteRepo(0, "")
NoTeam == [ID |-> 0, Name |-> "", Users |-> << >>, Repos |-> {}]
NoGroupRow == [ID |-> 0, Name |-> "", Users |-> << >>, CourseID |-> 0, Status |-> 0]

NoTwin == [on |-> FALSE, view |-> << >>, remoteRepos |-> {}, remoteTeams |-> {}, result |-> << >>, calls |-> << >>]

NoLocals == [oldgrp |-> NoGroupRow, provider |-> "", dir |-> "", existing |-> << >>,
             repo |-> NoRepo, gitUserNames |-> << >>, team |-> NoTeam]

(* The local store: users, groups, repositories (the repository records, in
   insertion order).  The provider: remoteRepos, remoteTeams.  Per handler
   invocation: pc (the call it is about to make), req (the request), loc (its
   local variables), result (what it returned), calls (the store and provider
   calls it has made, with their errors).  started counts the requests of
   SpecConc.  For a call of the gRPC service: ctx (its incoming context) and
   rpc (what getCurrentUser or getSCM returned for it).  twin keeps the end
   of a run of interleaved invocations while the same invocations are run
   again one after the other (SpecPair).                                   *)
VARIABLES users, groups, repositories, remoteRepos, remoteTeams, pc, req, loc, result, calls, started,
          ctx, rpc, twin

storeVars == <<users, groups, repositories>>
scmVars == <<remoteRepos, remoteTeams>>
rpcVars == <<ctx, rpc>>
vars == <<users, groups, repositories, remoteRepos, remoteTeams, pc, req, loc, result, calls, started, ctx, rpc, twin>>

Max(S) == IF S = {} THEN 0 ELSE CHOOSE m \in S : \A n \in S : n <= m

\* the statuses a request asks for: an accepted one, the threshold, above it
RequestStatuses == {Approved} \cup (Teacher .. MaxStatus)

(* Init: the groups exist with their members and are Pending; the users are
   linked to the course's provider, but for at most one of them; the course
   directory holds an unrelated repository; nothing has been provisioned. *)
InitGroups ==
    /\ \E unlinked \in {0} \cup UserIDs :
          users = [u \in UserIDs |->
                     [ID |-> u,
                      RemoteIdentities |-> IF u /= unlinked THEN {Link(u, Provider)}
                                                            ELSE {Link(u, OtherProvider)}]]
    /\ groups = [g \in GroupIDs |->
                   [ID |-> g, Name |-> Name(g), Users |-> MembersOf(g),
                    CourseID |-> CourseID, Status |-> Pending]]
    /\ repositories = << >>
    /\ remoteRepos = {RemoteRepo(1, "course-info")}
    /\ remoteTeams = {}
    /\ pc = [p \in Procs |-> "idle"]
    /\ req = [p \in Procs |-> NoRequest]
    /\ loc = [p \in Procs |-> NoLocals]
    /\ result = [p \in Procs |-> ""]
    /\ calls = [p \in Procs |-> << >>]
    /\ started = 0

Init == InitGroups /\ ctx = NoContext /\ rpc = NoCall /\ twin = NoTwin

\* a call, what it returned, and whether the store or the provider carried it out
Call(op, arg, err) == [op |-> op, arg |-> arg, err |-> err, applied |-> err = ""]

\* the handler returns: the invocation is over with the given outcome
Return(p, outcome) ==
    /\ pc' = [pc EXCEPT ![p] = "done"]
    /\ result' = [result EXCEPT ![p] = outcome]

\* the handler goes on with its next call
Goto(p, label) ==
    /\ pc' = [pc EXCEPT ![p] = label]
    /\ result' = [result EXCEPT ![p] = ""]

Log(p, op, arg, err) == calls' = [calls EXCEPT ![p] = Append(@, Call(op, arg, err))]

\* a provider call that the timeout ended, and that the provider carried out
LogTimedOut(p, op, arg) ==
    calls' = [calls EXCEPT ![p] = Append(@, [Call(op, arg, "Timeout") EXCEPT !.applied = TRUE])]

\* IsAdmin where a missing flag counts as admin
IsAdmin_NilIsAdmin(user) == user.IsAdmin /= "false"

\* line 32: user.IsAdmin == nil || !*user.IsAdmin
IsAdmin(user) == user.IsAdmin = "true"

\* Validate with the caller's role checked before the requested status
Validate_RoleFirst(r) ==
    IF ~r.parsed THEN "ParseError"
    ELSE IF ~IsAdmin(r.user) THEN "Forbidden"
    ELSE IF r.Status > Teacher THEN "BadRequest"
    ELSE ""

(* lines 18-35: the path parameter and the body are parsed, then the
   requested status is checked, then the caller's role; "" lets it pass   *)
Validate(r) ==
    IF ~r.parsed THEN "ParseError"
    ELSE IF r.Status > Teacher THEN "BadRequest"
    ELSE IF ~IsAdmin(r.user) THEN "Forbidden"
    ELSE ""

Requests ==
    {NoRequest} \cup [parsed : {TRUE}, gid : GroupIDs \cup {NoGroup},
                      Status : RequestStatuses, user : CallerUsers]

\* the requests of an admin with a session at the provider, for the groups
AdminRequests ==
    [parsed : {TRUE}, gid : GroupIDs, Status : {Approved},
     user : {[IsAdmin |-> "true", RemoteIdentities |-> {Link(0, Provider)}]}]

(* A request arrives and is validated; a handler that returned is free for
   the next request.                                                       *)
Arrive(p, requests) ==
    /\ pc[p] \in {"idle", "done"}
    /\ \E r \in requests :
          /\ req' = [req EXCEPT ![p] = r]
          /\ loc' = [loc EXCEPT ![p] = NoLocals]
          /\ calls' = [calls EXCEPT ![p] = << >>]
          /\ IF Validate(r) /= "" THEN Return(p, Validate(r)) ELSE Goto(p, "GetGroup")
    /\ UNCHANGED <<storeVars, scmVars, rpcVars, twin>>

\* any request, of any caller
Begin(p) == Arrive(p, Requests) /\ UNCHANGED started

\* one of a bounded number of requests of an admin, while others are served
BeginAdmin(p) ==
    /\ started < MaxRuns
    /\ started' = started + 1
    /\ Arrive(p, AdminRequests)

\* the group's row as db.GetGroup(true, id) returns it, users preloaded
GetGroupRow(id) == groups[id]

(* lines 38-45: oldgrp, err := db.GetGroup(true, id) *)
GetGroup(p) ==
    /\ pc[p] = "GetGroup"
    /\ \/ /\ req[p].gid \notin DOMAIN groups
          /\ Log(p, "db.GetGroup", req[p].gid, "NotFound")
          /\ Return(p, "NotFound")
          /\ UNCHANGED loc
       \/ /\ req[p].gid \in DOMAIN groups
          /\ \/ /\ Log(p, "db.GetGroup", req[p].gid, "")
                /\ loc' = [loc EXCEPT ![p].oldgrp = GetGroupRow(req[p].gid)]
                /\ Goto(p, "GetCourse")
             \/ /\ Log(p, "db.GetGroup", req[p].gid, "StoreFailure")
                /\ Return(p, "StoreFailure")
                /\ UNCHANGED loc
    /\ UNCHANGED <<storeVars, scmVars, req, started, rpcVars, twin>>

(* lines 47-53: course, err := db.GetCourse(oldgrp.CourseID) *)
GetCourse(p) ==
    /\ pc[p] = "GetCourse"
    /\ \/ /\ loc[p].oldgrp.CourseID = CourseID
          /\ Log(p, "db.GetCourse", loc[p].oldgrp.CourseID, "")
          /\ loc' = [loc EXCEPT ![p].provider = Provider]
          /\ Goto(p, "getSCM")
       \/ /\ \E e \in {"NotFound", "StoreFailure"} :
                /\ Log(p, "db.GetCourse", loc[p].oldgrp.CourseID, e)
                /\ Return(p, e)
          /\ UNCHANGED loc
    /\ UNCHANGED <<storeVars, scmVars, req, started, rpcVars, twin>>

\* getSCM where the session cache is not consulted
getSCM_NoCacheCheck(user, provider) ==
    IF \E identity \in user.RemoteIdentities : identity.Provider = provider
    THEN ""
    ELSE "NotFound"

(* part_000 lines 52-60: the client handle cached under the access
   credential of the user's link for the provider                         *)
getSCM(user, provider) ==
    IF \E identity \in user.RemoteIdentities : identity.Provider = provider
    THEN LET identity == CHOOSE x \in user.RemoteIdentities : x.Provider = provider
         IN  IF identity.AccessToken \notin scms THEN "PermissionDenied" ELSE ""
    ELSE "NotFound"

(* lines 55-60: s, err := getSCM(c, course.Provider) *)
GetSCM(p) ==
    /\ pc[p] = "getSCM"
    /\ LET err == getSCM(req[p].user, loc[p].provider)
       IN  IF err /= "" THEN Return(p, err) ELSE Goto(p, "GetDirectory")
    /\ UNCHANGED <<storeVars, scmVars, req, loc, calls, started, rpcVars, twin>>

\* what a provider call can end with: a result, an error, the timeout
RemoteErrors == {"RemoteFailure", "Timeout"}

\* OnRemoteError where a call that the timeout ended counts as made
OnRemoteError_TimeoutIsOK(p, e) == Return(p, IF e = "Timeout" THEN "OK" ELSE e)

\* OnRemoteError where the handler makes the failed call again
OnRemoteError_Retry(p, e) == UNCHANGED <<pc, result>>

\* lines 64-66, 71-73, 128-130, 141-143, 150-153: if err != nil { return err }
OnRemoteError(p, e) == Return(p, e)

(* lines 63-66: dir, err := s.GetDirectory(ctx, course.DirectoryID) *)
GetDirectory(p) ==
    /\ pc[p] = "GetDirectory"
    /\ \/ /\ Log(p, "GetDirectory", DirectoryID, "")
          /\ loc' = [loc EXCEPT ![p].dir = DirPath]
          /\ Goto(p, "GetRepositories")
       \/ /\ \E e \in RemoteErrors :
                /\ Log(p, "GetDirectory", DirectoryID, e)
                /\ OnRemoteError(p, e)
          /\ UNCHANGED loc
    /\ UNCHANGED <<storeVars, scmVars, req, started, rpcVars, twin>>

\* the listings the provider can answer with: the repositories, in any order
Listings(repos) ==
    { l \in [1 .. Cardinality(repos) -> repos] : \A r \in repos : \E i \in DOMAIN l : l[i] = r }

Last(S) == Max(S)

\* Existing with the map keyed by the repository's URL, not its path
Existing_KeyedByWebURL(listing) ==
    [url \in {listing[i].WebURL : i \in DOMAIN listing} |->
        listing[Last({i \in DOMAIN listing : listing[i].WebURL = url})]]

(* lines 74-80: existing[repo.Path] = repo for each listed repo, in order;
   a later entry of the same path replaces an earlier one                 *)
Existing(listing) ==
    [path \in {listing[i].Path : i \in DOMAIN listing} |->
        listing[Last({i \in DOMAIN listing : listing[i].Path = path})]]

\* AfterListing where a listed repository is not recorded
AfterListing_SkipRecord(created) == IF created THEN "UpdateGroupStatus" ELSE "CreateRepository"

\* AfterListing without the look-up: the repository is always created
AfterListing_AlwaysCreate(created) == "CreateRepository"

\* lines 81-82: the repository is created only if the listing has none at the path
AfterListing(created) == IF created THEN "dbCreateRepository" ELSE "CreateRepository"

(* lines 70-82: repos, err := s.GetRepositories(ctx, dir); repo, created := existing[oldgrp.Name] *)
GetRepositories(p) ==
    /\ pc[p] = "GetRepositories"
    /\ \/ /\ \E listing \in Listings(remoteRepos) :
                LET existing == Existing(listing)
                    created == loc[p].oldgrp.Name \in DOMAIN existing
                IN  /\ loc' = [loc EXCEPT ![p].existing = existing,
                                          ![p].repo = IF created THEN existing[loc[p].oldgrp.Name] ELSE NoRepo]
                    /\ Goto(p, AfterListing(created))
          /\ Log(p, "GetRepositories", loc[p].dir, "")
       \/ /\ \E e \in RemoteErrors :
                /\ Log(p, "GetRepositories", loc[p].dir, e)
                /\ OnRemoteError(p, e)
          /\ UNCHANGED loc
    /\ UNCHANGED <<storeVars, scmVars, req, started, rpcVars, twin>>

\* the id the provider gives to the next repository, team
NextID(S) == Max({x.ID : x \in S}) + 1

(* scm.CreateRepository: the provider adds a repository at the path, under
   a new id.  It does not look for one of the same path: that a path is
   held once is left to the caller's listing before it creates.           *)
ProviderCreateRepository(opts) ==
    remoteRepos' = remoteRepos \cup {RemoteRepo(NextID(remoteRepos), opts.Path)}

\* CreateRepositoryOptions with a path of the invocation's own
CreateRepositoryOptions_OwnPath(p) ==
    [Directory |-> loc[p].dir, Path |-> loc[p].oldgrp.Name \o "-" \o ToString(p), Private |-> TRUE]

\* lines 83-87: the options of the CreateRepository call
CreateRepositoryOptions(p) == [Directory |-> loc[p].dir, Path |-> loc[p].oldgrp.Name, Private |-> TRUE]

\* OnCreateRepositoryFailed where the handler goes on with the listing's entry
OnCreateRepositoryFailed_UseListed(p, e) ==
    /\ loc' = [loc EXCEPT ![p].repo = IF loc[p].oldgrp.Name \in DOMAIN loc[p].existing
                                      THEN loc[p].existing[loc[p].oldgrp.Name] ELSE NoRepo]
    /\ Goto(p, "dbCreateRepository")

(* lines 88-93: the error is logged, repo is set to existing[oldgrp.Name]
   (no entry: the path was not listed), and the error is returned         *)
OnCreateRepositoryFailed(p, e) ==
    /\ Return(p, e)
    /\ UNCHANGED loc

(* lines 82-95: repo, err = s.CreateRepository(ctx, {dir, oldgrp.Name, true});
   on an error the handler reads existing[oldgrp.Name] again (line 91, no
   entry) and returns the error.  A call the timeout ends may have been
   carried out by the provider.                                           *)
CreateRepository(p) ==
    /\ pc[p] = "CreateRepository"
    /\ LET opts == CreateRepositoryOptions(p)
       IN  \/ /\ ProviderCreateRepository(opts)
              /\ Log(p, "CreateRepository", opts, "")
              /\ loc' = [loc EXCEPT ![p].repo = RemoteRepo(NextID(remoteRepos), opts.Path)]
              /\ Goto(p, "dbCreateRepository")
           \/ /\ \E e \in RemoteErrors :
                    /\ Log(p, "CreateRepository", opts, e)
                    /\ OnCreateRepositoryFailed(p, e)
              /\ UNCHANGED remoteRepos
           \/ /\ LogTimedOut(p, "CreateRepository", opts)
              /\ OnCreateRepositoryFailed(p, "Timeout")
              /\ ProviderCreateRepository(opts)
    /\ UNCHANGED <<storeVars, remoteTeams, req, started, rpcVars, twin>>

\* dbRepo with the group's id taken for the repository's
dbRepo_GroupIDAsRepositoryID(p) ==
    [DirectoryID |-> DirectoryID,
     RepositoryID |-> loc[p].oldgrp.ID,
     HTMLURL |-> loc[p].repo.WebURL,
     Type |-> UserRepo,
     UserID |-> 0,
     GroupID |-> loc[p].oldgrp.ID]

\* dbRepo with the number of listed repositories taken for the repository's id
dbRepo_ListedCountAsRepositoryID(p) ==
    [DirectoryID |-> DirectoryID,
     RepositoryID |-> Cardinality(DOMAIN loc[p].existing),
     HTMLURL |-> loc[p].repo.WebURL,
     Type |-> UserRepo,
     UserID |-> 0,
     GroupID |-> loc[p].oldgrp.ID]

(* lines 98-105: the record the handler writes for the group's repository *)
dbRepo(p) ==
    [DirectoryID |-> DirectoryID,
     RepositoryID |-> loc[p].repo.ID,
     HTMLURL |-> loc[p].repo.WebURL,
     Type |-> UserRepo,
     UserID |-> 0,
     GroupID |-> loc[p].oldgrp.ID]

\* the store's uniqueness constraint on (directory, remote repository id)
UniqueViolation(rows, row) ==
    \E k \in DOMAIN rows :
        rows[k].DirectoryID = row.DirectoryID /\ rows[k].RepositoryID = row.RepositoryID

StoreFailures == {"StoreFailure", "UniqueConstraint"}

\* OnCreateRepositoryError where the error is logged and the handler goes on
OnCreateRepositoryError_Continue(p, e) == Goto(p, "UpdateGroupStatus")

\* OnCreateRepositoryError where the handler goes on with the group's members
OnCreateRepositoryError_GoOnWithMembers(p, e) == Goto(p, "Members")

\* OnCreateRepositoryError where a record that is already stored is no error
OnCreateRepositoryError_DuplicateIsFine(p, e) ==
    IF e = "UniqueConstraint" THEN Goto(p, "UpdateGroupStatus") ELSE Return(p, e)

\* lines 106-109: the handler returns the error db.CreateRepository gave
OnCreateRepositoryError(p, e) == Return(p, e)

(* lines 106-110: db.CreateRepository(&dbRepo) *)
DbCreateRepository(p) ==
    /\ pc[p] = "dbCreateRepository"
    /\ \/ /\ ~UniqueViolation(repositories, dbRepo(p))
          /\ repositories' = Append(repositories, dbRepo(p))
          /\ Log(p, "db.CreateRepository", dbRepo(p), "")
          /\ Goto(p, "UpdateGroupStatus")
       \/ /\ \E e \in StoreFailures :
                /\ e = "UniqueConstraint" <=> UniqueViolation(repositories, dbRepo(p))
                /\ Log(p, "db.CreateRepository", dbRepo(p), e)
                /\ OnCreateRepositoryError(p, e)
          /\ UNCHANGED repositories
    /\ UNCHANGED <<users, groups, scmVars, req, loc, started, rpcVars, twin>>

\* AfterStatus where the usernames are not resolved
AfterStatus_SkipMembers(p) == "CreateTeam"

\* line 120-121: the member loop runs once per user of the group
AfterStatus(p) == IF Len(loc[p].oldgrp.Users) = 0 THEN "CreateTeam" ELSE "Members"

\* OnUpdateGroupStatusError where the error is logged and the handler goes on
OnUpdateGroupStatusError_Continue(p, e) == Goto(p, AfterStatus(p))

\* lines 115-118: the handler returns the error db.UpdateGroupStatus gave
OnUpdateGroupStatusError(p, e) == Return(p, e)

(* lines 112-118: db.UpdateGroupStatus(&models.Group{ID: oldgrp.ID, Status: ngrp.Status}) *)
UpdateGroupStatus(p) ==
    /\ pc[p] = "UpdateGroupStatus"
    /\ LET grp == [ID |-> loc[p].oldgrp.ID, Status |-> req[p].Status]
       IN  \/ /\ groups' = [groups EXCEPT ![grp.ID].Status = grp.Status]
              /\ Log(p, "db.UpdateGroupStatus", grp, "")
              /\ Goto(p, AfterStatus(p))
           \/ /\ Log(p, "db.UpdateGroupStatus", grp, "StoreFailure")
              /\ OnUpdateGroupStatusError(p, "StoreFailure")
              /\ UNCHANGED groups
    /\ UNCHANGED <<users, repositories, scmVars, req, loc, started, rpcVars, twin>>

\* getRemoteIDFor(user, provider): the user's identity at the provider, if any
HasRemoteIDFor(user, provider) == \E v \in user.RemoteIdentities : v.Provider = provider
getRemoteIDFor(user, provider) == CHOOSE v \in user.RemoteIdentities : v.Provider = provider

\* OnNoRemoteID where the member is passed over and the loop goes on
OnNoRemoteID_SkipMember(p) ==
    /\ loc' = [loc EXCEPT ![p].gitUserNames = Append(@, "")]
    /\ Goto(p, IF Len(loc[p].gitUserNames) + 1 = Len(loc[p].oldgrp.Users) THEN "CreateTeam" ELSE "Members")
    /\ UNCHANGED calls

\* lines 122-125: the handler returns the error of getRemoteIDFor
OnNoRemoteID(p) ==
    /\ Return(p, "NotFound")
    /\ UNCHANGED <<loc, calls>>

\* AppendUserName where the name is dropped, so that the loop does not advance
AppendUserName_Dropped(names, userName) == names

\* AppendUserName where the name is put in front
AppendUserName_InFront(names, userName) == <<userName>> \o names

\* line 131: gitUserNames = append(gitUserNames, userName)
AppendUserName(names, userName) == Append(names, userName)

(* lines 121-132: one turn of the loop over the group's users *)
Members(p) ==
    /\ pc[p] = "Members"
    /\ LET k == Len(loc[p].gitUserNames) + 1
           user == users[loc[p].oldgrp.Users[k]]
       IN  IF ~HasRemoteIDFor(user, loc[p].provider)
           THEN OnNoRemoteID(p)
           ELSE LET remote == getRemoteIDFor(user, loc[p].provider)
                IN  \/ /\ Log(p, "GetUserNameByID", remote.RemoteID, "")
                       /\ loc' = [loc EXCEPT ![p].gitUserNames = AppendUserName(@, UserNameByID(remote.RemoteID))]
                       /\ Goto(p, IF k = Len(loc[p].oldgrp.Users) THEN "CreateTeam" ELSE "Members")
                    \/ /\ \E e \in RemoteErrors :
                             /\ Log(p, "GetUserNameByID", remote.RemoteID, e)
                             /\ OnRemoteError(p, e)
                       /\ UNCHANGED loc
    /\ UNCHANGED <<storeVars, scmVars, req, started, rpcVars, twin>>

NewTeam(opts) == [ID |-> NextID(remoteTeams), Name |-> opts.TeamName, Users |-> opts.Users, Repos |-> {}]

\* scm.CreateTeam: the provider adds a team of the name, under a new id
ProviderCreateTeam(opts) == remoteTeams' = remoteTeams \cup {NewTeam(opts)}

\* OnCreateTeamFailed where the repository of the group is taken down again
OnCreateTeamFailed_DeleteRepository(p, e) ==
    /\ OnRemoteError(p, e)
    /\ remoteRepos' = remoteRepos \ {loc[p].repo}

(* lines 140-143: the failure is logged and the error returned; the
   repository made or found before is left as it is                       *)
OnCreateTeamFailed(p, e) ==
    /\ OnRemoteError(p, e)
    /\ UNCHANGED remoteRepos

(* lines 135-143: team, err := s.CreateTeam(ctx, {dir.Path, oldgrp.Name, gitUserNames}) *)
CreateTeam(p) ==
    /\ pc[p] = "CreateTeam"
    /\ LET opts == [Directory |-> loc[p].dir, TeamName |-> loc[p].oldgrp.Name, Users |-> loc[p].gitUserNames]
       IN  \/ /\ ProviderCreateTeam(opts)
              /\ Log(p, "CreateTeam", opts, "")
              /\ loc' = [loc EXCEPT ![p].team = NewTeam(opts)]
              /\ Goto(p, "AddTeamRepo")
              /\ UNCHANGED remoteRepos
           \/ /\ \E e \in RemoteErrors :
                    /\ Log(p, "CreateTeam", opts, e)
                    /\ OnCreateTeamFailed(p, e)
              /\ UNCHANGED <<remoteTeams, loc>>
           \/ /\ LogTimedOut(p, "CreateTeam", opts)
              /\ OnCreateTeamFailed(p, "Timeout")
              /\ ProviderCreateTeam(opts)
              /\ UNCHANGED loc
    /\ UNCHANGED <<storeVars, req, started, rpcVars, twin>>

\* scm.AddTeamRepo: the provider attaches the repository to the team
ProviderAddTeamRepo(opts) ==
    remoteTeams' = { IF t.ID = opts.TeamID THEN [t EXCEPT !.Repos = @ \cup {<<opts.Owner, opts.Repo>>}] ELSE t
                     : t \in remoteTeams }

(* lines 145-154: s.AddTeamRepo(ctx, {team.ID, repo.Owner, repo.Path}); 200 *)
AddTeamRepo(p) ==
    /\ pc[p] = "AddTeamRepo"
    /\ LET opts == [TeamID |-> loc[p].team.ID, Owner |-> loc[p].repo.Owner, Repo |-> loc[p].repo.Path]
       IN  \/ /\ ProviderAddTeamRepo(opts)
              /\ Log(p, "AddTeamRepo", opts, "")
              /\ Return(p, "OK")
           \/ /\ \E e \in RemoteErrors :
                    /\ Log(p, "AddTeamRepo", opts, e)
                    /\ OnRemoteError(p, e)
              /\ UNCHANGED remoteTeams
           \/ /\ LogTimedOut(p, "AddTeamRepo", opts)
              /\ OnRemoteError(p, "Timeout")
              /\ ProviderAddTeamRepo(opts)
    /\ UNCHANGED <<storeVars, remoteRepos, req, loc, started, rpcVars, twin>>

Steps(p) ==
    \/ GetGroup(p)
    \/ GetCourse(p)
    \/ GetSCM(p)
    \/ GetDirectory(p)
    \/ GetRepositories(p)
    \/ CreateRepository(p)
    \/ DbCreateRepository(p)
    \/ UpdateGroupStatus(p)
    \/ Members(p)
    \/ CreateTeam(p)
    \/ AddTeamRepo(p)

\* one invocation at a time
Next == \E p \in SeqProcs : Begin(p) \/ Steps(p)

Spec == Init /\ [][Next]_vars

(* Every call of the store and of the provider returns, and the handler
   then goes on: a step of a running invocation is not put off for ever.   *)
Running(p) == pc[p] \notin {"idle", "done"}
Fairness == \A p \in SeqProcs : WF_vars(Steps(p))
SpecLive == Init /\ [][Next]_vars /\ Fairness

\* invocations that interleave
NextConc == \E p \in Procs : BeginAdmin(p) \/ Steps(p)

SpecConc == Init /\ [][NextConc]_vars

(* ------- two invocations for two groups, interleaved and in turn ------- *)
\* the two invocations, and the two groups: invocation p is for group p
Pair == {1, 2}
PairRequest(p) ==
    [parsed |-> TRUE, gid |-> p, Status |-> Approved,
     user |-> [IsAdmin |-> "true", RemoteIdentities |-> {Link(0, Provider)}]]

InitialRepos == {RemoteRepo(1, "course-info")}

\* as Init, with the two groups
InitPair ==
    /\ \E unlinked \in {0} \cup UserIDs :
          users = [u \in UserIDs |->
                     [ID |-> u,
                      RemoteIdentities |-> IF u /= unlinked THEN {Link(u, Provider)}
                                                            ELSE {Link(u, OtherProvider)}]]
    /\ groups = [g \in Pair |->
                   [ID |-> g, Name |-> Name(g), Users |-> MembersOf(g),
                    CourseID |-> CourseID, Status |-> Pending]]
    /\ repositories = << >>
    /\ remoteRepos = InitialRepos
    /\ remoteTeams = {}
    /\ pc = [p \in Procs |-> "idle"]
    /\ req = [p \in Procs |-> NoRequest]
    /\ loc = [p \in Procs |-> NoLocals]
    /\ result = [p \in Procs |-> ""]
    /\ calls = [p \in Procs |-> << >>]
    /\ started = 0
    /\ ctx = NoContext /\ rpc = NoCall /\ twin = NoTwin

\* the one request of invocation p
BeginPair(p) ==
    /\ pc[p] = "idle"
    /\ Arrive(p, {PairRequest(p)})
    /\ UNCHANGED started

(* What the invocations leave behind, the ids the provider hands out left
   aside: how many repositories each path has, the teams by name, members
   and attached repositories, the repository records with the path of their
   repository, and the groups' statuses.                                   *)
PathOfID(id) ==
    IF \E r \in remoteRepos : r.ID = id THEN (CHOOSE r \in remoteRepos : r.ID = id).Path ELSE ""
View ==
    [repos |-> [path \in {r.Path : r \in remoteRepos} |-> Cardinality({r \in remoteRepos : r.Path = path})],
     teams |-> {[Name |-> t.Name, Users |-> t.Users, Repos |-> t.Repos] : t \in remoteTeams},
     nteams |-> Cardinality(remoteTeams),
     records |-> {[DirectoryID |-> repositories[k].DirectoryID, GroupID |-> repositories[k].GroupID,
                   UserID |-> repositories[k].UserID, Type |-> repositories[k].Type,
                   Path |-> PathOfID(repositories[k].RepositoryID)] : k \in DOMAIN repositories},
     nrecords |-> Len(repositories),
     statuses |-> [g \in DOMAIN groups |-> groups[g].Status]]

\* the calls a made so far are the first calls of b, with the same outcomes
SameOutcomes(a, b) ==
    /\ Len(a) <= Len(b)
    /\ \A k \in DOMAIN a : a[k].op = b[k].op /\ a[k].err = b[k].err /\ a[k].applied = b[k].applied

\* the two invocations, interleaved
Interleaved(p) == ~twin.on /\ (BeginPair(p) \/ Steps(p))

(* both are over: their end is kept, and store and provider are set back for
   the same two invocations to run again                                   *)
StartOver ==
    /\ ~twin.on
    /\ \A p \in Pair : pc[p] = "done"
    /\ twin' = [on |-> TRUE, view |-> View, remoteRepos |-> remoteRepos, remoteTeams |-> remoteTeams,
                result |-> result, calls |-> calls]
    /\ groups' = [g \in DOMAIN groups |-> [groups[g] EXCEPT !.Status = Pending]]
    /\ repositories' = << >>
    /\ remoteRepos' = InitialRepos
    /\ remoteTeams' = {}
    /\ pc' = [p \in Procs |-> "idle"]
    /\ req' = [p \in Procs |-> NoRequest]
    /\ loc' = [p \in Procs |-> NoLocals]
    /\ result' = [p \in Procs |-> ""]
    /\ calls' = [p \in Procs |-> << >>]
    /\ UNCHANGED <<users, started, rpcVars>>

(* one after the other, in either order, each call ending as it did in the
   interleaved run                                                         *)
InTurn(p) ==
    /\ twin.on
    /\ \A q \in Pair \ {p} : pc[q] \in {"idle", "done"}
    /\ BeginPair(p) \/ Steps(p)
    /\ SameOutcomes(calls'[p], twin.calls[p])

NextPair == StartOver \/ \E p \in Pair : Interleaved(p) \/ InTurn(p)

SpecPair == InitPair /\ [][NextPair]_vars

(* ------------- two invocations for one group, interleaved ------------- *)
\* the one request of invocation p, for the first group
BeginSame(p) ==
    /\ pc[p] = "idle"
    /\ Arrive(p, {PairRequest(1)})
    /\ UNCHANGED started

NextSame == \E p \in Pair : BeginSame(p) \/ Steps(p)

SpecSame == Init /\ [][NextSame]_vars

(* ------------- the gRPC service: getCurrentUser and getSCM ------------- *)
DigitChars == <<"0", "1", "2", "3", "4", "5", "6", "7", "8", "9">>
IsDigit(ch) == \E i \in DOMAIN DigitChars : DigitChars[i] = ch
DigitValue(ch) == (CHOOSE i \in DOMAIN DigitChars : DigitChars[i] = ch) - 1

RECURSIVE DecimalValue(_)
DecimalValue(s) ==
    IF s = << >> THEN 0
    ELSE 10 * DecimalValue(SubSeq(s, 1, Len(s) - 1)) + DigitValue(s[Len(s)])

(* strconv.ParseUint(s, 10, 64): the value of a non-empty string of decimal
   digits, a syntax error for any other string (the strings of TokenValues
   are short of the 64-bit range)                                          *)
ParseUint(s) ==
    IF s = << >> \/ \E k \in DOMAIN s : ~IsDigit(s[k])
    THEN [n |-> 0, err |-> "strconv.ErrSyntax"]
    ELSE [n |-> DecimalValue(s), err |-> ""]

\* db.GetUser(numID): the user's row, the not-found error, or a failure
GetUser(id, dbErr) ==
    IF dbErr THEN [user |-> NoUser, err |-> "StoreFailure"]
    ELSE IF id \notin DOMAIN users THEN [user |-> NoUser, err |-> "NotFound"]
    ELSE [user |-> users[id], err |-> ""]

Fail(code) == [user |-> NoUser, err |-> code]

(* part_000 lines 16-45: the user the context's "user" metadata names *)
getCurrentUser(c, dbErr) ==
    IF ~c.md THEN Fail("Aborted")
    ELSE IF Len(c.user) = 0 THEN Fail("Unauthenticated")
    ELSE IF Len(c.user) /= 1 THEN Fail("PermissionDenied")
    ELSE IF c.user[1] = << >> THEN Fail("Unauthenticated")
    ELSE IF ParseUint(c.user[1]).err /= "" THEN Fail(ParseUint(c.user[1]).err)
    ELSE GetUser(ParseUint(c.user[1]).n, dbErr)

(* part_000 lines 47-61: the handle of the current user for the provider,
   or the error of getCurrentUser, or that of the loop over the identities *)
getSCMOf(c, dbErr, provider) ==
    LET r == getCurrentUser(c, dbErr)
    IN  IF r.err /= "" THEN [scm |-> NoSCM, err |-> r.err]
        ELSE IF getSCM(r.user, provider) /= "" THEN [scm |-> NoSCM, err |-> getSCM(r.user, provider)]
        ELSE [scm |-> SCMOf((CHOOSE x \in r.user.RemoteIdentities : x.Provider = provider).AccessToken),
              err |-> ""]

\* a call arrives with any context, the store holding the users of Init
InitRPC == InitGroups /\ ctx \in Contexts /\ rpc = NoCall /\ twin = NoTwin

\* the service resolves the caller of the call
CurrentUser ==
    /\ rpc.pc = "start"
    /\ \E dbErr \in BOOLEAN :
          LET r == getCurrentUser(ctx, dbErr)
          IN  rpc' = [pc |-> "user", provider |-> "", dbErr |-> dbErr,
                      user |-> r.user, scm |-> NoSCM, err |-> r.err]
    /\ UNCHANGED <<storeVars, scmVars, pc, req, loc, result, calls, started, ctx, twin>>

\* the service resolves the caller's session at a provider
CurrentSCM ==
    /\ rpc.pc = "start"
    /\ \E dbErr \in BOOLEAN, provider \in {Provider, OtherProvider} :
          LET r == getSCMOf(ctx, dbErr, provider)
          IN  rpc' = [pc |-> "scm", provider |-> provider, dbErr |-> dbErr,
                      user |-> NoUser, scm |-> r.scm, err |-> r.err]
    /\ UNCHANGED <<storeVars, scmVars, pc, req, loc, result, calls, started, ctx, twin>>

NextRPC == CurrentUser \/ CurrentSCM

SpecRPC == InitRPC /\ [][NextRPC]_vars

(* ------------------------- the calls of an invocation ------------------ *)
CallsOf(p, op) == SelectSeq(calls[p], LAMBDA c : c.op = op)
OkCallsOf(p, op) == SelectSeq(calls[p], LAMBDA c : c.op = op /\ c.err = "")
Ops(p) == [k \in DOMAIN calls[p] |-> calls[p][k].op]
Range(f) == {f[x] : x \in DOMAIN f}
GroupName(p) == loc[p].oldgrp.Name
Returned(p, outcome) == pc[p] = "done" /\ result[p] = outcome

\* the invocation has listed the directory, and found the group's path or not
Listed(p) == Len(OkCallsOf(p, "GetRepositories")) = 1
FoundInListing(p) == Listed(p) /\ GroupName(p) \in DOMAIN loc[p].existing
AbsentFromListing(p) == Listed(p) /\ GroupName(p) \notin DOMAIN loc[p].existing

RowsEqual(row) == {k \in DOMAIN repositories : repositories[k] = row}

\* the calls of an invocation in which no step fails
StepsOf(p, created) ==
    <<"db.GetGroup", "db.GetCourse", "GetDirectory", "GetRepositories">>
    \o (IF created THEN <<"CreateRepository">> ELSE << >>)
    \o <<"db.CreateRepository", "db.UpdateGroupStatus">>
    \o [k \in 1 .. Len(loc[p].oldgrp.Users) |-> "GetUserNameByID"]
    \o <<"CreateTeam", "AddTeamRepo">>

(* C1: an invocation in which no step fails, for a group whose path the
   listing does not hold, issues exactly one CreateRepository call, with the
   group's name as path and private, and writes exactly one repository
   record, which carries the id and URL of the repository just created.   *)
C1_CreatesOneRepository ==
    \A p \in Procs :
        (Returned(p, "OK") /\ AbsentFromListing(p)) =>
            LET cr == CallsOf(p, "CreateRepository")
                wr == CallsOf(p, "db.CreateRepository")
            IN  /\ Len(cr) = 1
                /\ cr[1].arg.Path = GroupName(p)
                /\ cr[1].arg.Private = TRUE
                /\ Len(wr) = 1
                /\ wr[1].err = ""
                /\ Cardinality(RowsEqual(wr[1].arg)) = 1
                /\ \E r \in remoteRepos \ Range(loc[p].existing) :
                      /\ r.Path = GroupName(p)
                      /\ wr[1].arg.RepositoryID = r.ID
                      /\ wr[1].arg.HTMLURL = r.WebURL

C1_Witness == \E p \in Procs : Returned(p, "OK") /\ AbsentFromListing(p)

(* C2: an invocation for a group whose path the listing holds issues no
   CreateRepository call, the repository record it writes carries the id and
   URL of the listed repository, and when no step fails its calls are those
   of the other case without the CreateRepository call.                    *)
C2_ReusesExistingRepository ==
    \A p \in Procs :
        FoundInListing(p) =>
            LET found == loc[p].existing[GroupName(p)]
                wr == CallsOf(p, "db.CreateRepository")
            IN  /\ Len(CallsOf(p, "CreateRepository")) = 0
                /\ \A k \in DOMAIN wr :
                      wr[k].arg.RepositoryID = found.ID /\ wr[k].arg.HTMLURL = found.WebURL
                /\ Returned(p, "OK") =>
                      /\ Ops(p) = StepsOf(p, FALSE)
                      /\ \A k \in DOMAIN calls[p] : calls[p][k].err = ""
                      /\ Len(wr) = 1 /\ Cardinality(RowsEqual(wr[1].arg)) = 1

C2_Witness == \E p \in Procs : Returned(p, "OK") /\ FoundInListing(p)

ReposAt(path) == {r \in remoteRepos : r.Path = path}
LastCall(p) == calls[p][Len(calls[p])]
Issues(p, op) == Len(calls'[p]) = Len(calls[p]) + 1 /\ LastCall(p)'.op = op

(* C3: with invocations one after the other, the provider never holds two
   repositories at a group's name: an invocation issues a CreateRepository
   call only while the provider holds no repository at the group's name,
   so a second invocation for the group issues none.                      *)
C3_AtMostOneRepository ==
    /\ [](\A g \in GroupIDs : Cardinality(ReposAt(Name(g))) <= 1)
    /\ [][\A p \in Procs : Issues(p, "CreateRepository") => ReposAt(GroupName(p)) = {}]_vars

\* a later invocation for a group whose repository is already recorded found it listed
C3_Witness ==
    \E p \in Procs :
        /\ pc[p] = "dbCreateRepository"
        /\ FoundInListing(p)
        /\ Len(CallsOf(p, "CreateRepository")) = 0
        /\ \E k \in DOMAIN repositories :
              repositories[k].RepositoryID = loc[p].existing[GroupName(p)].ID

NoDuplicateRecords ==
    \A j, k \in DOMAIN repositories :
        (repositories[j].DirectoryID = repositories[k].DirectoryID
            /\ repositories[j].RepositoryID = repositories[k].RepositoryID) => j = k

(* C4: the store never holds two repository records of the same (directory,
   remote repository id): an insert of a record whose (directory, remote
   repository id) is already stored fails on the uniqueness constraint,
   writes nothing, and the invocation returns that error; with invocations
   one after the other that is every insert of an invocation for a group
   whose repository record is already stored.                              *)
C4_InsertNotIdempotent ==
    /\ []NoDuplicateRecords
    /\ [][\A p \in Procs :
            (/\ Issues(p, "db.CreateRepository")
             /\ \/ UniqueViolation(repositories, LastCall(p)'.arg)
                \/ \E k \in DOMAIN repositories : repositories[k].GroupID = loc[p].oldgrp.ID) =>
                /\ LastCall(p)'.err = "UniqueConstraint"
                /\ repositories' = repositories
                /\ pc'[p] = "done"
                /\ result'[p] = "UniqueConstraint"]_vars

C4_Witness == \E p \in Procs : Returned(p, "UniqueConstraint") /\ Len(repositories) > 0

\* the invocation has read its group, and a member of it has no link to the provider
GotGroup(p) == Len(OkCallsOf(p, "db.GetGroup")) = 1
HasUnlinkedMember(p) ==
    /\ GotGroup(p)
    /\ \E k \in DOMAIN loc[p].oldgrp.Users : ~HasRemoteIDFor(users[loc[p].oldgrp.Users[k]], Provider)
ReachedMembers(p) == Len(OkCallsOf(p, "db.UpdateGroupStatus")) = 1
NoTeamCalls(p) == Len(CallsOf(p, "CreateTeam")) = 0 /\ Len(CallsOf(p, "AddTeamRepo")) = 0

(* C5 as stated: an invocation that comes to resolve the members of a group
   with a member without a link fails with NotFound, and issues no
   CreateTeam and no AddTeamRepo call.                                     *)
C5_FailsNotFound ==
    \A p \in Procs :
        (HasUnlinkedMember(p) /\ ReachedMembers(p)) =>
            /\ NoTeamCalls(p)
            /\ pc[p] = "done" => result[p] = "NotFound"

(* C5 amended: an invocation for a group with a member without a link never
   issues a CreateTeam or AddTeamRepo call and never returns ok; it fails
   with NotFound when every call it made before succeeded, and otherwise
   with the error of the call that failed.                                 *)
C5_NoTeamWithoutLink ==
    \A p \in Procs :
        HasUnlinkedMember(p) =>
            /\ NoTeamCalls(p)
            /\ result[p] /= "OK"
            /\ (pc[p] = "done" /\ ReachedMembers(p)) =>
                  IF \A k \in DOMAIN calls[p] : calls[p][k].err = ""
                  THEN result[p] = "NotFound"
                  ELSE result[p] = LastCall(p).err

\* the first member resolved, the second has no link: NotFound after one lookup
C5_Witness ==
    \E p \in Procs :
        /\ HasUnlinkedMember(p)
        /\ Returned(p, "NotFound")
        /\ Len(OkCallsOf(p, "GetUserNameByID")) = 1

(* C6: a request whose requested status is above Teacher is rejected with
   the invalid-payload error, and the invocation makes no provider call and
   no store call.                                                          *)
C6_StatusAboveTeacherRejected ==
    \A p \in Procs :
        (pc[p] /= "idle" /\ req[p].parsed /\ req[p].Status > Teacher) =>
            /\ Returned(p, "BadRequest")
            /\ calls[p] = << >>

C6_Witness ==
    \E p \in Procs : req[p].parsed /\ req[p].Status > Teacher /\ ~IsAdmin(req[p].user) /\ pc[p] = "done"

\* the usernames of the group's members, in the members' order
UserNamesOf(grp) ==
    [k \in DOMAIN grp.Users |-> UserNameByID(getRemoteIDFor(users[grp.Users[k]], Provider).RemoteID)]

(* C7: when an invocation returns ok, the group's stored status is the
   requested one, the invocation wrote exactly one repository record, for
   the group, issued exactly one CreateTeam call, with the group's name and
   the usernames of all its members, and exactly one AddTeamRepo call, for
   the team created and the owner and path of the resolved repository.    *)
C7_OkMeansProvisioned ==
    \A p \in Procs :
        Returned(p, "OK") =>
            LET grp == loc[p].oldgrp
                wr == CallsOf(p, "db.CreateRepository")
                ct == CallsOf(p, "CreateTeam")
                at == CallsOf(p, "AddTeamRepo")
            IN  /\ groups[grp.ID].Status = req[p].Status
                /\ Len(wr) = 1 /\ wr[1].err = ""
                /\ wr[1].arg.GroupID = grp.ID
                /\ Cardinality(RowsEqual(wr[1].arg)) = 1
                /\ \A k \in DOMAIN grp.Users : HasRemoteIDFor(users[grp.Users[k]], Provider)
                /\ Len(ct) = 1 /\ ct[1].err = ""
                /\ ct[1].arg.TeamName = grp.Name
                /\ ct[1].arg.Users = UserNamesOf(grp)
                /\ Len(at) = 1 /\ at[1].err = ""
                /\ at[1].arg.Owner = loc[p].repo.Owner
                /\ at[1].arg.Repo = loc[p].repo.Path
                /\ loc[p].repo \in ReposAt(grp.Name)
                /\ wr[1].arg.RepositoryID = loc[p].repo.ID
                /\ \E t \in remoteTeams :
                      /\ t.ID = at[1].arg.TeamID
                      /\ t.Name = grp.Name
                      /\ t.Users = UserNamesOf(grp)
                      /\ <<loc[p].repo.Owner, loc[p].repo.Path>> \in t.Repos

\* ok for a group of more than one member
C7_Witness == \E p \in Procs : Returned(p, "OK") /\ Len(loc[p].oldgrp.Users) > 1

(* C8: the repository record the handler writes is of the group kind, is
   owned by the provisioned group and by no user.                          *)
C8_RecordOfGroupKind ==
    \A p \in Procs :
        \A k \in DOMAIN calls[p] :
            calls[p][k].op = "db.CreateRepository" =>
                /\ calls[p][k].arg.Type = GroupRepo
                /\ calls[p][k].arg.GroupID = loc[p].oldgrp.ID
                /\ calls[p][k].arg.UserID = 0

(* C9 as stated: a request of a caller who is not admin is refused with the
   permission error, and the invocation makes no store call and no provider
   call.                                                                   *)
C9_NonAdminForbidden ==
    \A p \in Procs :
        (pc[p] /= "idle" /\ req[p].parsed /\ req[p].user.IsAdmin /= "true") =>
            /\ Returned(p, "Forbidden")
            /\ calls[p] = << >>

(* C9 amended: a request of a caller who is not admin is refused, with the
   invalid-payload error when the requested status is above Teacher and
   with the permission error otherwise, and the invocation makes no store
   call and no provider call.                                              *)
C9_NonAdminRefused ==
    \A p \in Procs :
        (pc[p] /= "idle" /\ req[p].parsed /\ req[p].user.IsAdmin /= "true") =>
            /\ Returned(p, IF req[p].Status > Teacher THEN "BadRequest" ELSE "Forbidden")
            /\ calls[p] = << >>

C9_Witness ==
    \E p \in Procs : req[p].parsed /\ req[p].user.IsAdmin = "nil" /\ Returned(p, "Forbidden")

(* C10: an invocation for a group whose status, as the invocation read it,
   is above Rejected creates no repository and no team at the provider,
   writes no repository record and does not write the group's status.     *)
C10_OnlyPendingOrRejected ==
    \A p \in Procs :
        (GotGroup(p) /\ loc[p].oldgrp.Status > Rejected) =>
            /\ Len(OkCallsOf(p, "CreateRepository")) = 0
            /\ Len(OkCallsOf(p, "CreateTeam")) = 0
            /\ Len(OkCallsOf(p, "db.CreateRepository")) = 0
            /\ Len(OkCallsOf(p, "db.UpdateGroupStatus")) = 0

(* ---------------------- the gRPC service's claims ---------------------- *)
\* the one value of the context's token, when it is a number
IsNumeric(s) == s /= << >> /\ \A k \in DOMAIN s : IsDigit(s[k])
TokenMissing == ~ctx.md \/ Len(ctx.user) = 0
TokenEmpty == ctx.md /\ Len(ctx.user) = 1 /\ ctx.user[1] = << >>
TokenMalformed ==
    /\ ctx.md
    /\ \/ Len(ctx.user) > 1
       \/ Len(ctx.user) = 1 /\ ctx.user[1] /= << >> /\ ~IsNumeric(ctx.user[1])
TokenUser == DecimalValue(ctx.user[1])

(* C11: whenever getCurrentUser has returned (the store not failing), it has
   failed with Unauthenticated if the token is missing or the empty string,
   with PermissionDenied if it is malformed (more than one value, or a value
   that is no numeric id), with the store's not-found error if no user has
   the id, and has returned the user of that id otherwise.                 *)
C11_IdentityResolution ==
    (rpc.pc = "user" /\ ~rpc.dbErr) =>
        IF TokenMissing \/ TokenEmpty THEN rpc.err = "Unauthenticated" /\ rpc.user = NoUser
        ELSE IF TokenMalformed THEN rpc.err = "PermissionDenied" /\ rpc.user = NoUser
        ELSE IF TokenUser \notin DOMAIN users THEN rpc.err = "NotFound" /\ rpc.user = NoUser
        ELSE rpc.err = "" /\ rpc.user = users[TokenUser]

\* the context names a user of the store, and the store answers
IdentityResolved ==
    /\ ctx.md /\ Len(ctx.user) = 1 /\ IsNumeric(ctx.user[1])
    /\ TokenUser \in DOMAIN users
    /\ ~rpc.dbErr
LinksFor(user, provider) == {x \in user.RemoteIdentities : x.Provider = provider}

(* C12: whenever getSCM has returned for a provider: if the identity was not
   resolved, it returned the error of getCurrentUser and no handle; if the
   user has no link for the provider, NotFound and no handle; if the link's
   access credential is no key of the session cache, PermissionDenied and no
   handle; otherwise the handle cached under that credential, and no error. *)
C12_SessionLookup ==
    rpc.pc = "scm" =>
        IF ~IdentityResolved
        THEN /\ rpc.scm = NoSCM
             /\ rpc.err = getCurrentUser(ctx, rpc.dbErr).err
             /\ rpc.err \in {"Aborted", "Unauthenticated", "PermissionDenied",
                             "strconv.ErrSyntax", "NotFound", "StoreFailure"}
        ELSE LET links == LinksFor(users[TokenUser], rpc.provider)
             IN  /\ links = {} => rpc.err = "NotFound" /\ rpc.scm = NoSCM
                 /\ \A x \in links :
                       IF x.AccessToken \in scms
                       THEN rpc.err = "" /\ rpc.scm = SCMOf(x.AccessToken)
                       ELSE rpc.err = "PermissionDenied" /\ rpc.scm = NoSCM

\* getSCM has returned the handle cached for a user's credential
C12_Witness ==
    /\ rpc.pc = "scm" /\ IdentityResolved
    /\ rpc.err = "" /\ rpc.scm = SCMOf(TokenOf(TokenUser))
    /\ TokenOf(TokenUser) \in scms

(* --------------------- failures of an invocation ----------------------- *)
\* a store call or a provider call of the invocation has returned an error
Failed(p) == \E k \in DOMAIN calls[p] : calls[p][k].err /= ""
StoreWrites == {"db.CreateRepository", "db.UpdateGroupStatus"}
RemoteCalls == {"GetDirectory", "GetRepositories", "CreateRepository", "GetUserNameByID", "CreateTeam", "AddTeamRepo"}

(* C13: once a store call or a provider call of an invocation has returned
   an error, the invocation is over and has returned an error, the failed
   call is the last one of the invocation, and until the next request the
   invocation makes no further call and changes neither the store nor the
   provider.                                                               *)
C13_FailureAborts ==
    /\ [](\A p \in Procs :
            Failed(p) => /\ pc[p] = "done"
                         /\ result[p] \notin {"OK", ""}
                         /\ \A k \in DOMAIN calls[p] : calls[p][k].err /= "" => k = Len(calls[p]))
    /\ [][\A p \in SeqProcs :
            Failed(p) => /\ calls'[p] = calls[p] \/ (calls'[p] = << >> /\ pc[p] = "done")
                         /\ UNCHANGED <<storeVars, scmVars>>]_vars

\* an invocation has failed halfway: the record is written, the status is not
C13_Witness ==
    \E p \in Procs :
        /\ Failed(p)
        /\ LastCall(p).op = "db.UpdateGroupStatus"
        /\ Len(OkCallsOf(p, "db.CreateRepository")) = 1

\* the first call of the invocation that returned an error
FirstFailed(p) == calls[p][CHOOSE k \in DOMAIN calls[p] :
                              calls[p][k].err /= "" /\ \A j \in 1 .. k - 1 : calls[p][j].err = ""]
\* an error that carries the name of the stage it comes from
Annotated(stage, err) == stage \o ": " \o err

(* C14: the error a failed invocation returns is the error of the first call
   that failed, as that call gave it, carrying the name of that stage.     *)
C14_FirstErrorAnnotated ==
    \A p \in Procs :
        (Failed(p) /\ pc[p] = "done") =>
            result[p] = Annotated(FirstFailed(p).op, FirstFailed(p).err)

IsPrefix(a, b) == Len(a) <= Len(b) /\ \A k \in DOMAIN a : a[k] = b[k]

(* C15: the calls an invocation has made are, in this order, a beginning of:
   the listing, the creation of the repository if the listing lacks it, the
   write of the repository record, the update of the status, one username
   look-up per member, the creation of the team, the attachment of the
   repository; and every call but the last one made has succeeded.        *)
C15_StrictOrder ==
    \A p \in Procs :
        /\ \E created \in BOOLEAN :
              /\ IsPrefix(Ops(p), StepsOf(p, created))
              /\ Listed(p) => (created <=> AbsentFromListing(p))
        /\ \A k \in 1 .. Len(calls[p]) - 1 : calls[p][k].err = ""

\* an invocation has gone through all the steps, the creation included
C15_Witness ==
    \E p \in Procs :
        /\ pc[p] = "done"
        /\ Ops(p) = StepsOf(p, TRUE)
        /\ LastCall(p).err = ""

\* the invocation's CreateRepository call has returned an error
CreateFailed(p) == Len(CallsOf(p, "CreateRepository")) > 0 /\ CallsOf(p, "CreateRepository")[1].err /= ""

(* C16: when the listing lacks the group's path and the CreateRepository
   call fails, the invocation returns that call's error and that call is its
   last: it takes no repository from the listing, writes no repository
   record, does not update the status and creates no team; while it stays
   so, the store and the provider's teams do not change.                   *)
C16_CreateFailureSurfaced ==
    /\ [](\A p \in Procs :
            CreateFailed(p) =>
                /\ AbsentFromListing(p)
                /\ Returned(p, CallsOf(p, "CreateRepository")[1].err)
                /\ LastCall(p).op = "CreateRepository"
                /\ loc[p].repo = NoRepo
                /\ \A op \in {"db.CreateRepository", "db.UpdateGroupStatus", "CreateTeam", "AddTeamRepo"} :
                      Len(CallsOf(p, op)) = 0)
    /\ [][\A p \in SeqProcs : (CreateFailed(p) /\ CreateFailed(p)') => UNCHANGED <<storeVars, remoteTeams>>]_vars

\* the creation of the group's repository has failed
C16_Witness ==
    \E p \in Procs :
        /\ CreateFailed(p)
        /\ AbsentFromListing(p)
        /\ pc[p] = "done"
        /\ repositories = << >>

\* the member loop of the invocation has run to its end
MembersResolved(p) == pc[p] \in {"CreateTeam", "AddTeamRepo"} \/ Len(CallsOf(p, "CreateTeam")) > 0

(* C17: the k-th GetUserNameByID call of an invocation is for the k-th member
   of the group, so there is one call per member reached, in member order;
   no call follows a failed one, and none is made for a member without a
   link or for a member after such a one; when the loop has run to its end
   the list of usernames is as long as the member list and its i-th entry is
   the username of the i-th member.                                        *)
C17_MembersInOrder ==
    \A p \in Procs :
        LET un == CallsOf(p, "GetUserNameByID")
            members == loc[p].oldgrp.Users
        IN  /\ Len(un) <= Len(members)
            /\ \A k \in DOMAIN un :
                  /\ un[k].arg = RemoteIDOf(members[k])
                  /\ k < Len(un) => un[k].err = ""
                  /\ \A j \in 1 .. k : HasRemoteIDFor(users[members[j]], Provider)
            /\ MembersResolved(p) =>
                  /\ Len(un) = Len(members)
                  /\ Len(loc[p].gitUserNames) = Len(members)
                  /\ \A i \in DOMAIN members :
                        loc[p].gitUserNames[i] = UserNameByID(RemoteIDOf(members[i]))

\* the loop has run to its end for a group of more than one member
C17_Witness ==
    \E p \in Procs :
        /\ pc[p] = "CreateTeam"
        /\ Len(loc[p].oldgrp.Users) > 1
        /\ Len(loc[p].gitUserNames) = Len(loc[p].oldgrp.Users)

OncePerInvocation ==
    {"GetDirectory", "GetRepositories", "CreateRepository", "db.CreateRepository",
     "db.UpdateGroupStatus", "CreateTeam", "AddTeamRepo"}

(* C18: an invocation makes each of the GetDirectory, GetRepositories,
   CreateRepository, db.CreateRepository, db.UpdateGroupStatus, CreateTeam
   and AddTeamRepo calls at most once, and at most one GetUserNameByID call
   per member of the group, whether the calls succeed or fail.            *)
C18_NoRetries ==
    \A p \in Procs :
        /\ \A op \in OncePerInvocation : Len(CallsOf(p, op)) <= 1
        /\ LET un == CallsOf(p, "GetUserNameByID")
           IN  /\ Len(un) <= Len(loc[p].oldgrp.Users)
               /\ \A j, k \in DOMAIN un : j /= k => un[j].arg /= un[k].arg

\* a call has failed and the invocation is over, having made it once
C18_Witness ==
    \E p \in Procs :
        /\ pc[p] = "done"
        /\ Len(calls[p]) > 0
        /\ LastCall(p).op = "CreateTeam"
        /\ LastCall(p).err = "RemoteFailure"
        /\ Len(CallsOf(p, "CreateTeam")) = 1
        /\ Len(CallsOf(p, "GetUserNameByID")) = Len(loc[p].oldgrp.Users)

(* ------------------------ interleaved invocations ---------------------- *)
\* two invocations are under way for the same group, both past a listing
\* that lacked the group's path
BothFoundAbsent(p, q) ==
    /\ p /= q
    /\ req[p].gid = req[q].gid
    /\ AbsentFromListing(p) /\ AbsentFromListing(q)
TeamsNamed(name) == {t \in remoteTeams : t.Name = name}

(* C19: nothing keeps two invocations for one group apart.  An invocation
   whose listing lacked the group's path can make its CreateRepository call
   whatever the other one has done; when both have made it, both calls were
   for the same path, and if both succeeded the provider holds two
   repositories at that path; likewise both CreateTeam calls are for the
   same team name, and if both succeeded there are two teams of that name. *)
C19_NotExcluded ==
    \A p, q \in Procs :
        BothFoundAbsent(p, q) =>
            /\ pc[p] = "CreateRepository" => ENABLED CreateRepository(p)
            /\ (Len(CallsOf(p, "CreateRepository")) = 1 /\ Len(CallsOf(q, "CreateRepository")) = 1) =>
                  /\ CallsOf(p, "CreateRepository")[1].arg.Path = GroupName(p)
                  /\ CallsOf(q, "CreateRepository")[1].arg.Path = GroupName(p)
                  /\ (Len(OkCallsOf(p, "CreateRepository")) = 1 /\ Len(OkCallsOf(q, "CreateRepository")) = 1)
                        => Cardinality(ReposAt(GroupName(p))) >= 2
            /\ (Len(CallsOf(p, "CreateTeam")) = 1 /\ Len(CallsOf(q, "CreateTeam")) = 1) =>
                  /\ CallsOf(p, "CreateTeam")[1].arg.TeamName = CallsOf(q, "CreateTeam")[1].arg.TeamName
                  /\ (Len(OkCallsOf(p, "CreateTeam")) = 1 /\ Len(OkCallsOf(q, "CreateTeam")) = 1)
                        => Cardinality(TeamsNamed(GroupName(p))) >= 2

\* both invocations have created a repository at the group's path, and a team
C19_Witness ==
    \E p, q \in Procs :
        /\ BothFoundAbsent(p, q)
        /\ Len(OkCallsOf(p, "CreateRepository")) = 1 /\ Len(OkCallsOf(q, "CreateRepository")) = 1
        /\ Len(OkCallsOf(p, "CreateTeam")) = 1 /\ Len(OkCallsOf(q, "CreateTeam")) = 1
        /\ Cardinality(ReposAt(GroupName(p))) = 2
        /\ Cardinality(TeamsNamed(GroupName(p))) = 2

BothOver == \A p \in Pair : pc[p] = "done"

(* C20: two invocations for two different groups do not affect each other.
   Whatever way their steps interleaved, the same two invocations run one
   after the other, in either order and with every call ending as it did,
   can always be carried on to their end, and end with the same repositories,
   teams, repository records, group statuses (the provider's ids left
   aside) and the same result of each invocation.                          *)
C20_Independent ==
    twin.on =>
        IF BothOver
        THEN /\ View = twin.view
             /\ \A p \in Pair : result[p] = twin.result[p] /\ Len(calls[p]) = Len(twin.calls[p])
        ELSE ENABLED (\E p \in Pair : InTurn(p))

\* the steps of the two did interleave (the repository of the first group is
\* the older one, its team the younger one), and the run in turn is over
C20_Witness ==
    /\ twin.on /\ BothOver
    /\ \A p \in Pair : result[p] = "OK"
    /\ \E r1, r2 \in twin.remoteRepos, t1, t2 \in twin.remoteTeams :
          /\ r1.Path = Name(1) /\ r2.Path = Name(2) /\ r1.ID < r2.ID
          /\ t1.Name = Name(1) /\ t2.Name = Name(2) /\ t1.ID > t2.ID

(* ------------------------- nothing is taken back ----------------------- *)
TeamIDs == {t.ID : t \in remoteTeams}
RepoIDs == {r.ID : r \in remoteRepos}
RecordedIDs == {repositories[k].RepositoryID : k \in DOMAIN repositories}
\* the calls the handler makes: none of them deletes
HandlerCalls ==
    {"db.GetGroup", "db.GetCourse", "GetDirectory", "GetRepositories", "CreateRepository",
     "db.CreateRepository", "db.UpdateGroupStatus", "GetUserNameByID", "CreateTeam", "AddTeamRepo"}
\* the invocation has created a repository and has failed at a later step
FailedAfterCreate(p) ==
    /\ Len(OkCallsOf(p, "CreateRepository")) = 1
    /\ Failed(p)

(* C21: no step takes anything back: the provider's repositories and teams
   and the store's repository records only ever grow, and the handler makes
   no other calls than its ten; so when an invocation has failed after it
   created the repository (or the team), that repository (that team) is
   still there and the invocation has returned an error, not ok.           *)
C21_NoRollback ==
    /\ [][/\ remoteRepos \subseteq remoteRepos'
          /\ TeamIDs \subseteq TeamIDs'
          /\ IsPrefix(repositories, repositories')]_vars
    /\ [](\A p \in Procs :
            /\ \A k \in DOMAIN calls[p] : calls[p][k].op \in HandlerCalls
            /\ FailedAfterCreate(p) =>
                  /\ loc[p].repo \in remoteRepos
                  /\ loc[p].repo.Path = GroupName(p)
                  /\ pc[p] = "done" /\ result[p] \notin {"OK", ""}
            /\ (Failed(p) /\ Len(OkCallsOf(p, "CreateTeam")) = 1) =>
                  /\ loc[p].team.ID \in TeamIDs
                  /\ pc[p] = "done" /\ result[p] \notin {"OK", ""})

\* the provider is ahead of the store: the invocation created the repository,
\* failed at the write of its record, and no record holds the repository
C21_Witness ==
    \E p \in Procs :
        /\ FailedAfterCreate(p)
        /\ LastCall(p).op = "db.CreateRepository"
        /\ loc[p].repo \in remoteRepos
        /\ loc[p].repo.ID \notin RecordedIDs

(* ------------------------- failures of the store ----------------------- *)
WriteFailed(p, op) == Len(CallsOf(p, op)) > 0 /\ CallsOf(p, op)[1].err /= ""
NoCallsOf(p, ops) == \A op \in ops : Len(CallsOf(p, op)) = 0
AfterWrites == {"GetUserNameByID", "CreateTeam", "AddTeamRepo"}

(* C22: an invocation whose write of the repository record failed makes no
   status update and no GetUserNameByID, CreateTeam or AddTeamRepo call; one
   whose status update failed makes none of these three calls; a failed
   write leaves the groups as they are, as does every step of an invocation
   in which a write has failed; and the groups change only by the status
   update of an invocation that has written its repository record.        *)
C22_StoreFailureFatal ==
    /\ [](\A p \in Procs :
            /\ WriteFailed(p, "db.CreateRepository") =>
                  NoCallsOf(p, AfterWrites \cup {"db.UpdateGroupStatus"}) /\ pc[p] = "done"
            /\ WriteFailed(p, "db.UpdateGroupStatus") =>
                  NoCallsOf(p, AfterWrites) /\ pc[p] = "done")
    /\ [][\A p \in SeqProcs :
            \A op \in StoreWrites :
                (WriteFailed(p, op)' /\ calls'[p] /= << >>) => UNCHANGED groups]_vars
    /\ [][groups' /= groups =>
            \E p \in Procs :
                /\ Issues(p, "db.UpdateGroupStatus")
                /\ Len(OkCallsOf(p, "db.CreateRepository")) = 1]_vars

\* the status update has failed after the record was written
C22_Witness ==
    \E p \in Procs :
        /\ WriteFailed(p, "db.UpdateGroupStatus")
        /\ Len(OkCallsOf(p, "db.CreateRepository")) = 1
        /\ groups[req[p].gid].Status = Pending
        /\ pc[p] = "done"

(* ------------------------------ the timeout ---------------------------- *)
TimedOut(p) == \E k \in DOMAIN calls[p] : calls[p][k].err = "Timeout"

(* C23: whenever an invocation can make a provider call, that call can end
   with the timeout; a call that the timeout ended is the last call of the
   invocation, which is over with the timeout as its error; the step of
   that call and every later step up to the next request take nothing away
   from the provider or the store, and after that step they do not change. *)
C23_TimeoutFatal ==
    /\ [](\A p \in Procs : \A op \in RemoteCalls :
            ENABLED (Steps(p) /\ Issues(p, op)) =>
                ENABLED (Steps(p) /\ Issues(p, op) /\ calls'[p][Len(calls'[p])].err = "Timeout"))
    /\ [](\A p \in Procs :
            TimedOut(p) => /\ LastCall(p).err = "Timeout"
                           /\ LastCall(p).op \in RemoteCalls
                           /\ Returned(p, "Timeout"))
    /\ [][\A p \in SeqProcs :
            /\ TimedOut(p)' =>
                  /\ remoteRepos \subseteq remoteRepos'
                  /\ TeamIDs \subseteq TeamIDs'
                  /\ IsPrefix(repositories, repositories')
                  /\ UNCHANGED groups
            /\ TimedOut(p) => UNCHANGED <<storeVars, scmVars>>]_vars

\* the timeout ended the last call of an invocation: the repository, its
\* record, the new status and the team are all still there
C23_Witness ==
    \E p \in Procs :
        /\ TimedOut(p)
        /\ LastCall(p).op = "AddTeamRepo"
        /\ loc[p].repo \in remoteRepos
        /\ loc[p].repo.ID \in RecordedIDs
        /\ loc[p].team.ID \in TeamIDs
        /\ groups[req[p].gid].Status = req[p].Status

(* ------------------------------ termination ---------------------------- *)
\* the calls of the handler apart from the one per member
CallsBesidesMembers == Cardinality(HandlerCalls \ {"GetUserNameByID"})
\* the request of the handler is the same, and so is all it did for it
SameInvocation(p) == req'[p] = req[p] /\ calls'[p] = calls[p] /\ loc'[p] = loc[p] /\ result'[p] = result[p]

(* C24: every invocation that runs comes to its end, with ok or an error;
   it makes at most nine calls besides one GetUserNameByID call per member
   of the group; and an invocation at its end takes no further step: the
   handler stays as it is, store and provider too, until the next request. *)
C24_Terminates ==
    /\ \A p \in SeqProcs : Running(p) ~> (pc[p] = "done" /\ result[p] /= "")
    /\ [](\A p \in Procs : Len(calls[p]) <= CallsBesidesMembers + Len(loc[p].oldgrp.Users))
    /\ [][\A p \in SeqProcs :
            pc[p] = "done" =>
                /\ UNCHANGED <<storeVars, scmVars>>
                /\ (pc'[p] = "done" /\ SameInvocation(p)) \/ (calls'[p] = << >> /\ loc'[p] = NoLocals)]_vars

\* an invocation has come to its end after all its calls
C24_Witness ==
    \E p \in Procs :
        /\ pc[p] = "done"
        /\ Len(loc[p].oldgrp.Users) > 0
        /\ Len(calls[p]) = CallsBesidesMembers + Len(loc[p].oldgrp.Users)

(* ------------------------------ re-invocation -------------------------- *)
RecordsOf(g) == {k \in DOMAIN repositories : repositories[k].GroupID = g}
\* the invocation is for a group whose repository record an earlier one wrote
RecordedBefore(p) ==
    /\ GotGroup(p)
    /\ RecordsOf(loc[p].oldgrp.ID) /= {}
    /\ Len(OkCallsOf(p, "db.CreateRepository")) = 0
AfterRecord == {"db.UpdateGroupStatus", "GetUserNameByID", "CreateTeam", "AddTeamRepo"}

(* C25 as stated: with invocations one after the other, every invocation for
   a group whose repository record is already written fails at the insert
   of the record.                                                          *)
C25_FailsAtInsert ==
    \A p \in Procs :
        (RecordedBefore(p) /\ pc[p] = "done") =>
            /\ Returned(p, "UniqueConstraint")
            /\ LastCall(p).op = "db.CreateRepository"

(* C25: with invocations one after the other, an invocation for a group
   whose repository record is already written never gets past the insert of
   the record: it makes no status update, no GetUserNameByID, CreateTeam or
   AddTeamRepo call and does not return ok; if it comes to the insert, the
   insert fails on the uniqueness constraint and that is what it returns.
   No group ever has two records.                                          *)
C25_NeverPastInsert ==
    /\ \A g \in GroupIDs : Cardinality(RecordsOf(g)) <= 1
    /\ \A p \in Procs :
          RecordedBefore(p) =>
              /\ NoCallsOf(p, AfterRecord)
              /\ result[p] /= "OK"
              /\ Len(CallsOf(p, "db.CreateRepository")) = 1 =>
                    /\ LastCall(p).op = "db.CreateRepository"
                    /\ LastCall(p).err = "UniqueConstraint"
                    /\ Returned(p, "UniqueConstraint")

\* an earlier run wrote the record and failed before it made the team; the
\* run after it has failed at the insert, and there is still no team
C25_Witness ==
    \E p \in Procs :
        /\ RecordedBefore(p)
        /\ Returned(p, "UniqueConstraint")
        /\ remoteTeams = {}
        /\ groups[loc[p].oldgrp.ID].Status = Approved

(* ------------------------- the DeleteGroup handler --------------------- *)
\* lines 179-182: the gid path parameter, parsed or not
DeleteRequests ==
    [handler : {"DeleteGroup"}, parsed : {TRUE}, gid : GroupIDs \cup {NoGroup}]
        \cup {[handler |-> "DeleteGroup", parsed |-> FALSE, gid |-> 0]}

\* the requests of an admin that put a group into each of the statuses
StatusRequests ==
    [parsed : {TRUE}, gid : GroupIDs \cup {NoGroup}, Status : Pending .. Teacher,
     user : {[IsAdmin |-> "true", RemoteIdentities |-> {Link(0, Provider)}]}]

BeginPatch(p) == Arrive(p, StatusRequests) /\ UNCHANGED started

(* lines 179-182: gid, err := parseUint(c.Param("gid")) *)
BeginDelete(p) ==
    /\ pc[p] \in {"idle", "done"}
    /\ \E r \in DeleteRequests :
          /\ req' = [req EXCEPT ![p] = r]
          /\ loc' = [loc EXCEPT ![p] = NoLocals]
          /\ calls' = [calls EXCEPT ![p] = << >>]
          /\ IF ~r.parsed THEN Return(p, "ParseError") ELSE Goto(p, "DeleteGetGroup")
    /\ UNCHANGED <<storeVars, scmVars, started, rpcVars, twin>>

\* the group's row as db.GetGroup(false, gid) returns it, users not loaded
GetGroupRowOnly(id) == [groups[id] EXCEPT !.Users = << >>]

\* Deletable where only a teacher's group is kept
Deletable_UpToApproved(group) == ~(group.Status > Approved)

\* line 190: group.Status > models.Rejected
Deletable(group) == ~(group.Status > Rejected)

(* lines 183-192: group, err := db.GetGroup(false, gid), then the status check *)
DeleteGetGroup(p) ==
    /\ pc[p] = "DeleteGetGroup"
    /\ \/ /\ req[p].gid \notin DOMAIN groups
          /\ Log(p, "db.GetGroup", req[p].gid, "NotFound")
          /\ Return(p, "NotFound")
          /\ UNCHANGED loc
       \/ /\ req[p].gid \in DOMAIN groups
          /\ \/ /\ Log(p, "db.GetGroup", req[p].gid, "")
                /\ loc' = [loc EXCEPT ![p].oldgrp = GetGroupRowOnly(req[p].gid)]
                /\ IF Deletable(GetGroupRowOnly(req[p].gid))
                   THEN Goto(p, "DbDeleteGroup")
                   ELSE Return(p, "Forbidden")
             \/ /\ Log(p, "db.GetGroup", req[p].gid, "StoreFailure")
                /\ Return(p, "StoreFailure")
                /\ UNCHANGED loc
    /\ UNCHANGED <<storeVars, scmVars, req, started, rpcVars, twin>>

\* the store without the group's row
DeleteGroupRow(rows, id) == [g \in DOMAIN rows \ {id} |-> rows[g]]

\* lines 193-195: if err := db.DeleteGroup(gid); err != nil { return nil }
OnDeleteGroupError(p, e) == Return(p, "nil")

(* lines 193-196: db.DeleteGroup(gid), then c.NoContent(http.StatusOK) *)
DbDeleteGroup(p) ==
    /\ pc[p] = "DbDeleteGroup"
    /\ \/ /\ Log(p, "db.DeleteGroup", req[p].gid, "")
          /\ groups' = DeleteGroupRow(groups, req[p].gid)
          /\ Return(p, "OK")
       \/ /\ Log(p, "db.DeleteGroup", req[p].gid, "StoreFailure")
          /\ groups' = groups
          /\ OnDeleteGroupError(p, "StoreFailure")
    /\ UNCHANGED <<users, repositories, scmVars, req, loc, started, rpcVars, twin>>

DeleteSteps(p) == DeleteGetGroup(p) \/ DbDeleteGroup(p)

\* one request at a time, of either handler
NextDelete ==
    \E p \in SeqProcs : BeginPatch(p) \/ Steps(p) \/ BeginDelete(p) \/ DeleteSteps(p)

SpecDelete == Init /\ [][NextDelete]_vars

\* the request the handler serves is a DeleteGroup request
InDelete(p) == "handler" \in DOMAIN req[p]
\* db.GetGroup told the handler that there is no such group
GroupUnknown(p) ==
    \E k \in DOMAIN calls[p] : calls[p][k].op = "db.GetGroup" /\ calls[p][k].err = "NotFound"
\* the handler returned without an error: c.NoContent(200), or a bare nil
NoErrorReturned(p) == pc[p] = "done" /\ result[p] \in {"OK", "nil"}

(* C26: DeleteGroup deletes only pending or rejected groups. When the group
   it has read has a status above Rejected, the handler returns Forbidden
   and has made no db.DeleteGroup call; for a group id the store does not
   know it returns NotFound, again without a db.DeleteGroup call; and no
   step of any sequence of requests removes a group whose status is above
   Rejected.                                                               *)
C26_DeletesOnlyPendingOrRejected ==
    /\ [](\A p \in Procs :
            (InDelete(p) /\ GotGroup(p) /\ loc[p].oldgrp.Status > Rejected) =>
                Returned(p, "Forbidden") /\ NoCallsOf(p, {"db.DeleteGroup"}))
    /\ [](\A p \in Procs :
            (InDelete(p) /\ GroupUnknown(p)) =>
                Returned(p, "NotFound") /\ NoCallsOf(p, {"db.DeleteGroup"}))
    /\ [][\A p \in Procs :
            (pc[p] = "DeleteGetGroup" /\ pc'[p] /= pc[p]) =>
                /\ req[p].gid \notin DOMAIN groups => Returned(p, "NotFound")'
                /\ (req[p].gid \in DOMAIN groups /\ groups[req[p].gid].Status > Rejected) =>
                      pc'[p] = "done" /\ result'[p] \notin {"OK", "nil"}]_vars
    /\ [][\A g \in DOMAIN groups :
            groups[g].Status > Rejected => (g \in DOMAIN groups' /\ groups'[g] = groups[g])]_vars

\* a DeleteGroup request for an accepted group was refused, the group is there
C26_Witness ==
    \E p \in Procs :
        /\ InDelete(p)
        /\ Returned(p, "Forbidden")
        /\ req[p].gid \in DOMAIN groups
        /\ groups[req[p].gid].Status > Rejected

(* C27: the DeleteGroup handler reports success only when the group was
   deleted: whenever it has returned without an error, its db.DeleteGroup
   call succeeded and the group is gone; a failed db.DeleteGroup call makes
   it return an error.                                                     *)
C27_SuccessOnlyWhenDeleted ==
    \A p \in Procs :
        (InDelete(p) /\ NoErrorReturned(p)) =>
            /\ Len(OkCallsOf(p, "db.DeleteGroup")) = 1
            /\ req[p].gid \notin DOMAIN groups
====
